---- MODULE Spec2Model ----
(***************************************************************************)
(* DropboxIE._real_extract (yt_dlp/extractor/dropbox.py) as a state        *)
(* machine.  One run of the extractor is a straight-line procedure; the    *)
(* model cuts it at every outgoing request and at every block of the       *)
(* function, so that the order of requests and the intermediate locals can *)
(* be observed.  The locals keep their names from the source.              *)
(*                                                                         *)
(* Python's None is modelled as the empty sequence None, and a value v     *)
(* that may be None as the one-element sequence Some(v).                   *)
(*                                                                         *)
(* The HTTP helpers of the framework (InfoExtractor._download_webpage,     *)
(* _download_json, _extract_m3u8_formats_and_subtitles) are the            *)
(* environment: every response they can deliver is a nondeterministic      *)
(* choice.  Transport failures of the fatal helpers are raised inside the  *)
(* framework and are outside this file; the one request the source marks   *)
(* fatal=False (the metadata request) is modelled with its failure.        *)
(***************************************************************************)
EXTENDS Integers, Sequences, FiniteSets, TLC

(* ------------------------------ bounds -------------------------------- *)

\* Most registerStreamedPrefetch calls on one page.
MaxTokens == 2

\* Most formats the manifest resolver returns for one manifest.
MaxManifestFormats == 1

(* ----------------------------- Optionals ------------------------------ *)

None == <<>>

Some(v) == <<v>>

\* Python truthiness of an optional whose values, when present, are truthy.
Truthy(opt) == opt # None

(* ------------------------------- URLs --------------------------------- *)

\* A query string is a sequence of <<key, value>> pairs.
RECURSIVE QsKeys(_)
\* parse_qs: the keys in order of first appearance.
QsKeys(q) ==
    IF q = <<>> THEN <<>>
    ELSE LET rest == QsKeys(SubSeq(q, 1, Len(q) - 1))
             k    == q[Len(q)][1]
         IN  IF \E i \in 1..Len(rest) : rest[i] = k THEN rest ELSE Append(rest, k)

RECURSIVE QsVals(_, _)
\* parse_qs: the values of key k, in order.
QsVals(q, k) ==
    IF q = <<>> THEN <<>>
    ELSE IF q[1][1] = k THEN <<q[1][2]>> \o QsVals(Tail(q), k)
         ELSE QsVals(Tail(q), k)

\* dict.update with one key: an existing key keeps its place and gets the one
\* new value, a new key goes last.  The result is a sequence of <<key, values>>.
QsUpdate(q, k, v) ==
    LET keys  == QsKeys(q)
        keys2 == IF \E i \in 1..Len(keys) : keys[i] = k THEN keys ELSE Append(keys, k)
    IN  [i \in 1..Len(keys2) |->
            <<keys2[i], IF keys2[i] = k THEN <<v>> ELSE QsVals(q, keys2[i])>>]

RECURSIVE UrlEncode(_)
\* urlencode(qs, doseq=True): one pair per value, key by key.
UrlEncode(d) ==
    IF d = <<>> THEN <<>>
    ELSE [j \in 1..Len(d[1][2]) |-> <<d[1][1], d[1][2][j]>>] \o UrlEncode(Tail(d))

RECURSIVE update_url_query(_, _)
\* utils.update_url_query(url, query): the url with each key of query set to
\* its value; query is a sequence of <<key, value>> pairs.
update_url_query(u, query) ==
    IF query = <<>> THEN u
    ELSE update_url_query(
             [u EXCEPT !.query = UrlEncode(QsUpdate(u.query, query[1][1], query[1][2]))],
             Tail(query))

(* ------------------------------ inputs -------------------------------- *)

\* Share urls: the id group of _VALID_URL, the stem of the unquoted basename
\* and the query string.
Urls ==
    { [id |-> "nelirfsxnmcfbfh", stem |-> "video", path |-> "/s/nelirfsxnmcfbfh/video.mp4",
       query |-> <<>>],
      [id |-> "r2kd2skcy5ylbbta5y1pz", stem |-> "DJI_0003",
       path |-> "/scl/fi/r2kd2skcy5ylbbta5y1pz/DJI_0003.MP4",
       query |-> << <<"dl", "0">>, <<"rlkey", "k">> >>] }

\* The videopassword parameter: unset, the empty string, a password.
Passwords == { None, Some(""), Some("pw") }

\* if password: a string is truthy when it is not empty.
PasswordGiven(p) == p # None /\ p # Some("")

\* The dropbox.com cookies this extractor reads.
CookieNames == { "t", "sm_auth" }

PasswordTitle == "Dropbox - Password Required"

Url(p) == [path |-> p, query |-> <<>>]

Field(k, v) == [kind |-> k, val |-> v]

\* The registration tokens a page may carry.  padded: whether
\* base64.b64decode accepts the token; text: what the decoded text holds, as
\* the matches the regular expressions of the scan find in it, in text order.
TokFull ==
    [padded |-> TRUE,
     text |-> << Field("m3u8", Url("a.m3u8")), Field("anonymous", "anonymous:\tanonymous"),
                 Field("thumb", [path |-> "a/thumb.jpeg", query |-> << <<"size", "256x256">> >>]),
                 Field("vtt", Url("a/scrubber_thumb_vtt.vtt")),
                 Field("id", "ia"), Field("id", "ia2") >>]

TokPlain ==
    [padded |-> TRUE,
     text |-> << Field("m3u8", Url("b.m3u8")), Field("thumb", Url("b/thumb.jpeg")) >>]

TokNoManifest ==
    [padded |-> TRUE,
     text |-> << Field("anonymous", "anonymous:\tanonymous"),
                 Field("thumb", Url("c/thumb.jpeg")), Field("vtt", Url("c/scrubber_thumb_vtt.vtt")),
                 Field("id", "ic") >>]

TokBadPadding == [padded |-> FALSE, text |-> <<>>]

Tokens == { TokFull, TokPlain, TokNoManifest, TokBadPadding }

TokenSeqs == UNION { [1..n -> Tokens] : n \in 0..MaxTokens }

\* A fetched page: its og:title, whether the body holds the prompt phrase,
\* the content_id its markup carries, and the tokens of its
\* registerStreamedPrefetch calls in document order.
Pages ==
    [og_title : { None, Some(PasswordTitle) },
     prompt : BOOLEAN,
     content_id : { None, Some("c1") },
     tokens : TokenSeqs]

NoPage == [og_title |-> None, prompt |-> FALSE, content_id |-> None, tokens |-> <<>>]

\* The status field of the auth endpoint's JSON answer.
AuthStatuses == { Some("authed"), Some("error"), None }

\* The metadata dict of the metadata endpoint's answer; a key the dict lacks
\* is None.
MetaEmpty ==
    [resolution_width |-> None, resolution_height |-> None, frame_rate |-> None,
     codec |-> None, duration |-> None, capture_date |-> None]

MetaFull ==
    [resolution_width |-> Some("1920"), resolution_height |-> Some("1080"),
     frame_rate |-> Some("30"), codec |-> Some("h264"), duration |-> Some("60"),
     capture_date |-> Some("2020-01-02")]

MetaPartial ==
    [MetaEmpty EXCEPT !.duration = Some("12"), !.capture_date = Some("not a date")]

\* What _download_json(..., fatal=False) returns: False on a failed request,
\* else the parsed document, with or without a "metadata" key.
JsonFalse == [ok |-> FALSE, metadata |-> None]

JsonResults ==
    { JsonFalse, [ok |-> TRUE, metadata |-> None] }
        \cup { [ok |-> TRUE, metadata |-> Some(m)] : m \in { MetaFull, MetaPartial } }

\* utils.unified_strdate: a date in a known format, normalised; else None.
unified_strdate(d) ==
    IF d = Some("2020-01-02") THEN Some("20200102") ELSE None

HlsId(i) == CASE i = 1 -> "hls-1" [] i = 2 -> "hls-2" [] OTHER -> "hls-n"

\* One format of a resolved manifest.
HlsFormat(transcode_url, i) ==
    [url |-> transcode_url, format_id |-> HlsId(i), format_note |-> None, quality |-> None,
     width |-> None, height |-> None, fps |-> None, vcodec |-> None]

\* What _extract_m3u8_formats_and_subtitles may return for a manifest url:
\* a list of formats and the languages of the subtitles.
ManifestResults(transcode_url) ==
    { [formats |-> [i \in 1..n |-> HlsFormat(transcode_url, i)], subtitles |-> s] :
        n \in 0..MaxManifestFormats, s \in { {}, {"en"} } }

(* ------------------------------- state -------------------------------- *)

VARIABLES
    url,                    \* the share url (argument of _real_extract)
    password,               \* self.get_param("videopassword")
    cookies,                \* names of the cookies in the jar for dropbox.com
    pc,                     \* where the run stands
    webpage,                \* the local the gate test and the scan read
    fetched,                \* the page the last page fetch answered with
    response,               \* None before the auth POST, else Some(its status)
    gated,                  \* outcome of the gate test: "unchecked", "open", "gated"
    requests,               \* the requests issued so far, in order
    todo,                   \* tokens of webpage not yet visited by reversed()
    evaluated,              \* indexes of the tokens decoded so far, in order
    committed,              \* index of the token the loop broke on, 0 if none
    formats,
    subtitles,
    has_anonymous_download,
    thumbnails,
    storyboard_url,
    thumbnail_url,
    video_internal_id,
    json_result,            \* None before the metadata request, else Some(answer)
    additional_metadata,
    result,                 \* None, or Some(the returned record)
    raised                  \* None, or Some(the exception that ended the run)

scanVars == << todo, evaluated, committed, formats, subtitles, has_anonymous_download,
               storyboard_url, thumbnail_url, video_internal_id >>

vars == << url, password, cookies, pc, webpage, fetched, response, gated, requests,
           scanVars, thumbnails, json_result, additional_metadata, result, raised >>

\* mobj.group("id")
video_id == url.id

\* os.path.splitext(compat_urllib_parse_unquote(url_basename(url)))[0]
title == url.stem

Init ==
    /\ url \in Urls
    /\ password \in Passwords
    /\ cookies \in SUBSET CookieNames
    /\ pc = "fetch"
    /\ webpage = NoPage
    /\ fetched = NoPage
    /\ response = None
    /\ gated = "unchecked"
    /\ requests = <<>>
    /\ todo = 0
    /\ evaluated = <<>>
    /\ committed = 0
    /\ formats = <<>>
    /\ subtitles = {}
    /\ has_anonymous_download = FALSE
    /\ thumbnails = <<>>
    /\ storyboard_url = None
    /\ thumbnail_url = None
    /\ video_internal_id = None
    /\ json_result = None
    /\ additional_metadata = MetaEmpty
    /\ result = None
    /\ raised = None

(* ------------------------------ helpers ------------------------------- *)

\* The messages of the two errors of the password gate.
PasswordRequiredError == "Password protected video, use --video-password <password>"

AuthenticationError == "Authentication failed!"

\* An exception leaves _real_extract: the run ends without a result.
Raise(exc) ==
    /\ raised' = Some(exc)
    /\ pc' = "raised"

\* The cookies an answer may set: the first page sets the CSRF cookie t, the
\* auth endpoint the session marker sm_auth.  The jar belongs to the HTTP
\* layer; what it held before the run is chosen in Init.
SetCookies(kind) ==
    CASE kind = "page" -> { {}, {"t"} }
      [] kind = "auth" -> { {}, {"sm_auth"} }
      [] OTHER -> { {} }

\* A request is issued and answered.
Respond(kind, set_cookies) ==
    /\ requests' = Append(requests, kind)
    /\ cookies' = cookies \cup set_cookies

\* self._download_webpage(url, video_id)
DownloadPage(page, set_cookies) ==
    /\ webpage' = page
    /\ fetched' = page
    /\ Respond("page", set_cookies)

\* IsGated without the test of the prompt phrase.
IsGatedByTitleOnly(page) == page.og_title = Some(PasswordTitle)

\* The gate test of the if statement: the og:title or the prompt phrase.
IsGated(page) ==
    \/ page.og_title = Some(PasswordTitle)
    \/ page.prompt

\* The loop is entered over reversed(re.findall(...)): the last token first.
EnterScan(page) ==
    /\ pc' = "scan"
    /\ todo' = Len(page.tokens)

RECURSIVE SearchRegex(_, _, _)
\* self._search_regex(pattern, decoded, name, default=...): the first match
\* of the pattern in the text, or the default.
SearchRegex(kind, text, default) ==
    IF text = <<>> THEN default
    ELSE IF text[1].kind = kind THEN Some(text[1].val)
         ELSE SearchRegex(kind, Tail(text), default)

(* --------------------------- the password gate ------------------------ *)

\* Line 49: the initial page fetch.
FetchPage ==
    /\ pc = "fetch"
    /\ \E page \in Pages, set_cookies \in SetCookies("page") :
           DownloadPage(page, set_cookies)
    /\ pc' = "gate"
    /\ UNCHANGED << url, password, response, gated, scanVars, thumbnails, json_result,
                    additional_metadata, result, raised >>

\* Lines 54-57 false: the page is not gated, the scan runs on it.
GateOpen ==
    /\ pc = "gate"
    /\ ~IsGated(webpage)
    /\ gated' = "open"
    /\ EnterScan(webpage)
    /\ UNCHANGED << url, password, cookies, webpage, fetched, response, requests, evaluated, committed,
                    formats, subtitles, has_anonymous_download, storyboard_url,
                    thumbnail_url, video_internal_id, thumbnails, json_result,
                    additional_metadata, result, raised >>

\* PostPassword raising only on the status "error": an answer without a
\* status passes.
PostPasswordOnlyErrorRaises ==
    /\ pc = "gate"
    /\ IsGated(webpage)
    /\ PasswordGiven(password)
    /\ gated' = "gated"
    /\ IF webpage.content_id = None
       THEN Raise("RegexNotFoundError") /\ UNCHANGED << requests, cookies, response >>
       ELSE IF "t" \notin cookies
       THEN Raise("AttributeError") /\ UNCHANGED << requests, cookies, response >>
       ELSE \E status \in AuthStatuses, set_cookies \in SetCookies("auth") :
                /\ Respond("auth", set_cookies)
                /\ response' = Some(status)
                /\ IF status = Some("error")
                   THEN Raise(AuthenticationError)
                   ELSE pc' = "refetch" /\ UNCHANGED raised
    /\ UNCHANGED << url, password, webpage, fetched, scanVars, thumbnails, json_result,
                    additional_metadata, result >>

\* Lines 59-75: a password was given.  content_id is searched without a
\* default (RegexNotFoundError when absent), the t cookie is dereferenced
\* (AttributeError on None when absent), the password is posted, and a status
\* other than "authed" raises.
PostPassword ==
    /\ pc = "gate"
    /\ IsGated(webpage)
    /\ PasswordGiven(password)
    /\ gated' = "gated"
    /\ IF webpage.content_id = None
       THEN Raise("RegexNotFoundError") /\ UNCHANGED << requests, cookies, response >>
       ELSE IF "t" \notin cookies
       THEN Raise("AttributeError") /\ UNCHANGED << requests, cookies, response >>
       ELSE \E status \in AuthStatuses, set_cookies \in SetCookies("auth") :
                /\ Respond("auth", set_cookies)
                /\ response' = Some(status)
                /\ IF status # Some("authed")
                   THEN Raise(AuthenticationError)
                   ELSE pc' = "refetch" /\ UNCHANGED raised
    /\ UNCHANGED << url, password, webpage, fetched, scanVars, thumbnails, json_result,
                    additional_metadata, result >>

\* RefetchAfterAuth with the fetched page not assigned to webpage.
RefetchAfterAuthDiscarded ==
    /\ pc = "refetch"
    /\ \E page \in Pages, set_cookies \in SetCookies("refetch") :
           /\ fetched' = page
           /\ Respond("page", set_cookies)
    /\ EnterScan(webpage)
    /\ UNCHANGED << url, password, webpage, response, gated, evaluated, committed, formats,
                    subtitles, has_anonymous_download, storyboard_url, thumbnail_url,
                    video_internal_id, thumbnails, json_result, additional_metadata,
                    result, raised >>

\* Line 76: the page is fetched again after the password was accepted.
RefetchAfterAuth ==
    /\ pc = "refetch"
    /\ \E page \in Pages, set_cookies \in SetCookies("refetch") :
           /\ DownloadPage(page, set_cookies)
           /\ EnterScan(page)
    /\ UNCHANGED << url, password, response, gated, evaluated, committed, formats, subtitles,
                    has_anonymous_download, storyboard_url, thumbnail_url,
                    video_internal_id, thumbnails, json_result, additional_metadata,
                    result, raised >>

\* RefetchWithCookie going back to the gate test with the page it fetched.
RefetchWithCookieRechecks ==
    /\ pc = "gate"
    /\ IsGated(webpage)
    /\ ~PasswordGiven(password)
    /\ "sm_auth" \in cookies
    /\ gated' = "gated"
    /\ \E page \in Pages, set_cookies \in SetCookies("refetch") :
           DownloadPage(page, set_cookies)
    /\ UNCHANGED << url, password, pc, response, scanVars, thumbnails, json_result,
                    additional_metadata, result, raised >>

\* Lines 77-78: no password, but an sm_auth cookie: the page is fetched again.
RefetchWithCookie ==
    /\ pc = "gate"
    /\ IsGated(webpage)
    /\ ~PasswordGiven(password)
    /\ "sm_auth" \in cookies
    /\ gated' = "gated"
    /\ \E page \in Pages, set_cookies \in SetCookies("refetch") :
           /\ DownloadPage(page, set_cookies)
           /\ EnterScan(page)
    /\ UNCHANGED << url, password, response, evaluated, committed, formats, subtitles,
                    has_anonymous_download, storyboard_url, thumbnail_url,
                    video_internal_id, thumbnails, json_result, additional_metadata,
                    result, raised >>

\* Lines 79-83: neither a password nor the cookie.
PasswordRequired ==
    /\ pc = "gate"
    /\ IsGated(webpage)
    /\ ~PasswordGiven(password)
    /\ "sm_auth" \notin cookies
    /\ gated' = "gated"
    /\ Raise(PasswordRequiredError)
    /\ UNCHANGED << url, password, cookies, webpage, fetched, response, requests, scanVars,
                    thumbnails, json_result, additional_metadata, result >>

(* ----------------------------- the scan ------------------------------- *)

\* Line 95 on a token b64decode rejects: binascii.Error leaves the function.
DecodeError ==
    /\ pc = "scan"
    /\ todo > 0
    /\ ~webpage.tokens[todo].padded
    /\ evaluated' = Append(evaluated, todo)
    /\ Raise("binascii.Error")
    /\ UNCHANGED << url, password, cookies, webpage, fetched, response, gated, requests, todo, committed,
                    formats, subtitles, has_anonymous_download, storyboard_url,
                    thumbnail_url, video_internal_id, thumbnails, json_result,
                    additional_metadata, result >>

\* SkipToken with the other fields read before the test of the manifest url.
SkipTokenKeepsFields ==
    /\ pc = "scan"
    /\ todo > 0
    /\ webpage.tokens[todo].padded
    /\ LET decoded == webpage.tokens[todo].text
       IN  /\ ~Truthy(SearchRegex("m3u8", decoded, None))
           /\ has_anonymous_download' = Truthy(SearchRegex("anonymous", decoded, None))
           /\ thumbnail_url' = SearchRegex("thumb", decoded, None)
           /\ storyboard_url' = SearchRegex("vtt", decoded, None)
           /\ video_internal_id' = SearchRegex("id", decoded, None)
    /\ evaluated' = Append(evaluated, todo)
    /\ todo' = todo - 1
    /\ UNCHANGED << url, password, cookies, pc, webpage, fetched, response, gated, requests,
                    committed, formats, subtitles, thumbnails, json_result,
                    additional_metadata, result, raised >>

\* Lines 95-105: the token decodes and holds no manifest url: continue.
SkipToken ==
    /\ pc = "scan"
    /\ todo > 0
    /\ webpage.tokens[todo].padded
    /\ ~Truthy(SearchRegex("m3u8", webpage.tokens[todo].text, None))
    /\ evaluated' = Append(evaluated, todo)
    /\ todo' = todo - 1
    /\ UNCHANGED << url, password, cookies, pc, webpage, fetched, response, gated, requests, committed,
                    formats, subtitles, has_anonymous_download, storyboard_url,
                    thumbnail_url, video_internal_id, thumbnails, json_result,
                    additional_metadata, result, raised >>

\* Lines 95-130: the token decodes and holds a manifest url: the manifest is
\* resolved, the other fields are read from the same text, and the loop breaks.
CommitToken ==
    /\ pc = "scan"
    /\ todo > 0
    /\ webpage.tokens[todo].padded
    /\ LET decoded == webpage.tokens[todo].text
           transcode_url == SearchRegex("m3u8", decoded, None)
       IN  /\ Truthy(transcode_url)
           /\ \E m \in ManifestResults(transcode_url[1]), set_cookies \in SetCookies("manifest") :
                  /\ Respond("manifest", set_cookies)
                  /\ formats' = m.formats
                  /\ subtitles' = m.subtitles
           /\ has_anonymous_download' = Truthy(SearchRegex("anonymous", decoded, None))
           /\ thumbnail_url' = SearchRegex("thumb", decoded, None)
           /\ storyboard_url' = SearchRegex("vtt", decoded, None)
           /\ video_internal_id' = SearchRegex("id", decoded, None)
    /\ evaluated' = Append(evaluated, todo)
    /\ committed' = todo
    /\ pc' = "thumbs"
    /\ UNCHANGED << url, password, webpage, fetched, response, gated, todo, thumbnails, json_result,
                    additional_metadata, result, raised >>

\* Line 89 with the iterator exhausted: no token yielded a manifest url.
EndOfTokens ==
    /\ pc = "scan"
    /\ todo = 0
    /\ pc' = "thumbs"
    /\ UNCHANGED << url, password, cookies, webpage, fetched, response, gated, requests, scanVars,
                    thumbnails, json_result, additional_metadata, result, raised >>

(* ---------------------------- thumbnails ------------------------------ *)

\* Lines 133-141: the table of sizes, as (label, width, height).
sizes ==
    << <<"480x320", 480, 320>>, <<"640x480", 640, 480>>, <<"800x600", 800, 600>>,
       <<"1024x768", 1024, 768>>, <<"1280x960", 1280, 960>>, <<"1600x1200", 1600, 1200>>,
       <<"2048x1536", 2048, 1536>> >>

\* Preference comparing the height, not the width, with 1280.
PreferenceByHeight(size) == IF size[3] = 1280 THEN 1 ELSE -1

\* Lines 144-146.
Preference(size) == IF size[2] = 1280 THEN 1 ELSE -1

\* Lines 147-156: the thumbnail appended for one size.
Thumbnail(base, size) ==
    [url |-> update_url_query(base, << <<"size", size[1]>>, <<"size_mode", "2">> >>),
     width |-> size[2],
     height |-> size[3],
     preference |-> Preference(size)]

\* Lines 132-156: the thumbnails list after the block.
Thumbnails(base) ==
    IF Truthy(base) THEN [i \in 1..Len(sizes) |-> Thumbnail(base[1], sizes[i])] ELSE <<>>

DeriveThumbnails ==
    /\ pc = "thumbs"
    /\ thumbnails' = Thumbnails(thumbnail_url)
    /\ pc' = "metadata"
    /\ UNCHANGED << url, password, cookies, webpage, fetched, response, gated, requests, scanVars,
                    json_result, additional_metadata, result, raised >>

(* ----------------------------- metadata ------------------------------- *)

\* Lines 182-183: json_result.get("metadata", {}) of a truthy answer, else {}.
MetadataOf(answer) ==
    IF answer.ok /\ answer.metadata # None THEN answer.metadata[1] ELSE MetaEmpty

\* Line 160 false: no internal id, no request.
SkipMetadata ==
    /\ pc = "metadata"
    /\ ~Truthy(video_internal_id)
    /\ pc' = "assemble"
    /\ UNCHANGED << url, password, cookies, webpage, fetched, response, gated, requests, scanVars,
                    thumbnails, json_result, additional_metadata, result, raised >>

\* FetchMetadata with a fatal request: a failed request raises.
FetchMetadataFatal ==
    /\ pc = "metadata"
    /\ Truthy(video_internal_id)
    /\ IF "t" \notin cookies
       THEN /\ Raise("AttributeError")
            /\ UNCHANGED << requests, cookies, json_result, additional_metadata >>
       ELSE \E answer \in JsonResults, set_cookies \in SetCookies("metadata") :
                /\ Respond("metadata", set_cookies)
                /\ json_result' = Some(answer)
                /\ IF answer.ok
                   THEN /\ additional_metadata' = MetadataOf(answer)
                        /\ pc' = "assemble"
                        /\ UNCHANGED raised
                   ELSE /\ Raise("ExtractorError")
                        /\ UNCHANGED additional_metadata
    /\ UNCHANGED << url, password, webpage, fetched, response, gated, scanVars, thumbnails,
                    result >>

\* Lines 160-183: the t cookie is dereferenced for the x-csrf-token header
\* (AttributeError on None when absent), then the request is made with
\* fatal=False.
FetchMetadata ==
    /\ pc = "metadata"
    /\ Truthy(video_internal_id)
    /\ IF "t" \notin cookies
       THEN /\ Raise("AttributeError")
            /\ UNCHANGED << requests, cookies, json_result, additional_metadata >>
       ELSE \E answer \in JsonResults, set_cookies \in SetCookies("metadata") :
                /\ Respond("metadata", set_cookies)
                /\ json_result' = Some(answer)
                /\ additional_metadata' = MetadataOf(answer)
                /\ pc' = "assemble"
                /\ UNCHANGED raised
    /\ UNCHANGED << url, password, webpage, fetched, response, gated, scanVars, thumbnails, result >>

(* ------------------------- the returned record ------------------------ *)

\* Lines 188-197: the format of the original file.
OriginalFormat(u, meta) ==
    [url |-> update_url_query(u, << <<"dl", "1">> >>),
     format_id |-> "original",
     format_note |-> Some("Original"),
     quality |-> Some("1"),
     width |-> meta.resolution_width,
     height |-> meta.resolution_height,
     fps |-> meta.frame_rate,
     vcodec |-> meta.codec]

\* FinalFormats without the test of the anonymous flag.
FinalFormatsAlways(fmts, anonymous, u, meta) == Append(fmts, OriginalFormat(u, meta))

\* Lines 186-198: formats after the block.
FinalFormats(fmts, anonymous, u, meta) ==
    IF anonymous THEN Append(fmts, OriginalFormat(u, meta)) ELSE fmts

\* Lines 185-211: the original format is appended and the record returned.
Return ==
    /\ pc = "assemble"
    /\ LET all == FinalFormats(formats, has_anonymous_download, url, additional_metadata)
       IN  /\ formats' = all
           /\ result' = Some([id |-> video_id,
                              title |-> title,
                              formats |-> all,
                              subtitles |-> subtitles,
                              thumbnails |-> thumbnails,
                              storyboard_url |-> storyboard_url,
                              duration |-> additional_metadata.duration,
                              upload_date |-> unified_strdate(additional_metadata.capture_date)])
    /\ pc' = "done"
    /\ UNCHANGED << url, password, cookies, webpage, fetched, response, gated, requests, todo, evaluated,
                    committed, subtitles, has_anonymous_download, storyboard_url,
                    thumbnail_url, video_internal_id, thumbnails, json_result,
                    additional_metadata, raised >>

Next ==
    \/ FetchPage
    \/ GateOpen
    \/ PostPassword
    \/ RefetchAfterAuth
    \/ RefetchWithCookie
    \/ PasswordRequired
    \/ DecodeError
    \/ SkipToken
    \/ CommitToken
    \/ EndOfTokens
    \/ DeriveThumbnails
    \/ SkipMetadata
    \/ FetchMetadata
    \/ Return

Spec == Init /\ [][Next]_vars

(* ======================= properties of the run ======================== *)

\* The page shows the password wall (the title or the prompt phrase).
AsksPassword(page) ==
    \/ page.og_title = Some(PasswordTitle)
    \/ page.prompt

\* The values a url carries for key k.
UrlParam(u, k) == QsVals(u.query, k)

\* How many requests of a kind were issued.
Count(kind) == Cardinality({ i \in 1..Len(requests) : requests[i] = kind })

\* The run is past the loop over the tokens.
PastScan == pc \in { "thumbs", "metadata", "assemble", "done" }

\* The tokens were visited from the last one of webpage downwards.
ScannedLastToFirst ==
    /\ Len(evaluated) <= Len(webpage.tokens)
    /\ \A i \in 1..Len(evaluated) : evaluated[i] = Len(webpage.tokens) - i + 1

\* C1: a gated page, no password given and no sm_auth cookie: the run ends
\* with the "password required" error, returns nothing, and the initial page
\* fetch is the only request it ever made (no auth POST, nothing after it).
C1_PasswordRequired ==
    /\ (gated = "gated" /\ password = None /\ "sm_auth" \notin cookies)
           => /\ raised = Some(PasswordRequiredError)
              /\ requests = <<"page">>
              /\ result = None
    /\ (pc \notin { "fetch", "gate" } /\ requests = <<"page">> /\ AsksPassword(webpage)
            /\ password = None /\ "sm_auth" \notin cookies)
           => /\ gated = "gated"
              /\ raised = Some(PasswordRequiredError)

C1_Witness ==
    /\ raised = Some(PasswordRequiredError)
    /\ AsksPassword(webpage)
    /\ password = None
    /\ "sm_auth" \notin cookies
    /\ requests = <<"page">>

\* C2: a gated page and a password the auth endpoint accepts (status
\* "authed"): one auth POST, then one page re-fetch and no other page or auth
\* request, and the scan then runs over the tokens of the re-fetched page.
C2_AcceptedPassword ==
    response = Some(Some("authed"))
        => /\ gated = "gated"
           /\ raised # Some(AuthenticationError)
           /\ pc = "refetch" => requests = <<"page", "auth">>
           /\ pc # "refetch"
                  => /\ Len(requests) >= 3
                     /\ SubSeq(requests, 1, 3) = <<"page", "auth", "page">>
                     /\ Count("auth") = 1
                     /\ Count("page") = 2
                     /\ webpage = fetched
                     /\ ScannedLastToFirst
                     /\ pc = "scan" => todo + Len(evaluated) = Len(fetched.tokens)
                     /\ PastScan => (committed # 0 \/ Len(evaluated) = Len(fetched.tokens))

C2_Witness ==
    /\ response = Some(Some("authed"))
    /\ Count("auth") = 1
    /\ Count("page") = 2
    /\ committed = 1
    /\ Len(webpage.tokens) = 2
    /\ pc = "done"

\* C3: a gated page and a password the auth endpoint answers with a status
\* other than "authed": the run ends with the authentication error; the page
\* is not fetched again, no token is scanned, no manifest is resolved and no
\* metadata is requested.
C3_RejectedPassword ==
    (response # None /\ response # Some(Some("authed")))
        => /\ raised = Some(AuthenticationError)
           /\ result = None
           /\ requests = <<"page", "auth">>
           /\ evaluated = <<>>
           /\ json_result = None

C3_Witness ==
    /\ response = Some(None)
    /\ raised = Some(AuthenticationError)
    /\ requests = <<"page", "auth">>

\* C4: a run ends with a record or with one of the two errors of the
\* password gate; nothing else makes it fail.
C4_OnlyGateErrors ==
    raised # None => raised \in { Some(PasswordRequiredError), Some(AuthenticationError) }

\* The original format among the formats of a record, if any.
Originals(fmts) == { i \in 1..Len(fmts) : fmts[i].format_id = "original" }

\* C5: when the metadata request was made and failed, nothing is raised: the
\* metadata stays empty, the run goes on to return, and the record it returns
\* has no duration, no upload_date, and an original format (if any) without
\* width, height, fps and vcodec.
C5_MetadataFailureIsSoft ==
    json_result = Some(JsonFalse)
        => /\ video_internal_id # None
           /\ raised = None
           /\ pc \in { "assemble", "done" }
           /\ pc = "assemble" => ENABLED Return
           /\ pc = "done"
                  => /\ result # None
                     /\ result[1].duration = None
                     /\ result[1].upload_date = None
                     /\ \A i \in Originals(result[1].formats) :
                            /\ result[1].formats[i].width = None
                            /\ result[1].formats[i].height = None
                            /\ result[1].formats[i].fps = None
                            /\ result[1].formats[i].vcodec = None

C5_Witness ==
    /\ json_result = Some(JsonFalse)
    /\ pc = "done"
    /\ result # None
    /\ Originals(result[1].formats) # {}

\* The decoded text holds a match of the given kind.
Holds(tok, kind) == \E j \in 1..Len(tok.text) : tok.text[j].kind = kind

\* The first match of the given kind in a text that holds one.
First(tok, kind) ==
    tok.text[CHOOSE j \in 1..Len(tok.text) :
                 /\ tok.text[j].kind = kind
                 /\ \A k \in 1..(j - 1) : tok.text[k].kind # kind].val

\* The tokens of a page that yield a manifest url, by index.
Yielding(page) == { j \in 1..Len(page.tokens) : Holds(page.tokens[j], "m3u8") }

\* The last token in document order that yields a manifest url, 0 if none.
LastYielding(page) ==
    IF Yielding(page) = {} THEN 0
    ELSE CHOOSE j \in Yielding(page) : \A k \in Yielding(page) : k <= j

\* The run has left the loop over the tokens, by its end, by the break or by
\* an exception raised inside it.
ScanOver == PastScan \/ raised = Some("binascii.Error")

\* C6: for any sequence of tokens, the scan goes last-to-first and commits
\* to the last token in document order that yields a manifest url, falling
\* back to an earlier token when the later ones are unusable; the anonymous
\* flag, the thumbnail url, the storyboard url and the internal id come from
\* that token, and no token is evaluated after the commit.
C6_CommitsLastYielding ==
    ScanOver
        => /\ ScannedLastToFirst
           /\ committed = LastYielding(webpage)
           /\ committed # 0
                  => LET tok == webpage.tokens[committed]
                     IN  /\ evaluated[Len(evaluated)] = committed
                         /\ has_anonymous_download = Holds(tok, "anonymous")
                         /\ thumbnail_url =
                                IF Holds(tok, "thumb") THEN Some(First(tok, "thumb")) ELSE None
                         /\ storyboard_url =
                                IF Holds(tok, "vtt") THEN Some(First(tok, "vtt")) ELSE None
                         /\ video_internal_id =
                                IF Holds(tok, "id") THEN Some(First(tok, "id")) ELSE None

\* C7: the formats of the returned record hold an entry with format_id
\* "original" exactly when the decoded text of the committed token holds the
\* anonymous marker; when it does there is one such entry, it comes last,
\* after the formats of the manifest, and its url carries dl=1.
C7_OriginalIffAnonymous ==
    pc = "done"
        => LET fmts == result[1].formats
               marker == committed # 0 /\ Holds(webpage.tokens[committed], "anonymous")
           IN  /\ fmts = formats
               /\ (Originals(fmts) # {}) <=> marker
               /\ marker
                      => /\ Originals(fmts) = { Len(fmts) }
                         /\ UrlParam(fmts[Len(fmts)].url, "dl") = <<"1">>
                         /\ fmts[Len(fmts)].url.path = url.path
                         /\ \A i \in 1..(Len(fmts) - 1) :
                                fmts[i].url = First(webpage.tokens[committed], "m3u8")

C7_Witness ==
    /\ pc = "done"
    /\ Len(formats) = 2
    /\ formats[2].format_id = "original"
    /\ UrlParam(url, "dl") = <<"0">>

\* C8: when no token of the scanned page yields a manifest url (a page
\* without tokens included) the manifest resolver and the metadata endpoint
\* are never called, and the returned record has no formats, subtitles or
\* thumbnails, no storyboard_url, duration or upload_date, whatever else the
\* decoded texts held.
C8_NothingWithoutManifest ==
    ((pc = "scan" \/ ScanOver) /\ Yielding(webpage) = {})
        => /\ Count("manifest") = 0
           /\ Count("metadata") = 0
           /\ pc = "done"
                  => /\ result[1].formats = <<>>
                     /\ result[1].subtitles = {}
                     /\ result[1].thumbnails = <<>>
                     /\ result[1].storyboard_url = None
                     /\ result[1].duration = None
                     /\ result[1].upload_date = None

C8_Witness ==
    /\ pc = "done"
    /\ webpage.tokens = << TokNoManifest, TokNoManifest >>
    /\ result[1].formats = <<>>
    /\ result[1].thumbnails = <<>>

\* C9: once the thumbnails are derived, a thumbnail url that was found gives
\* seven thumbnails of widths 480, 640, 800, 1024, 1280, 1600, 2048 in this
\* order, the 1280 wide one with preference 1 and the six others with -1; no
\* thumbnail url gives the empty list.  The returned record holds this list.
C9_SevenThumbnails ==
    pc \in { "metadata", "assemble", "done" }
        => /\ thumbnail_url # None
                  => /\ Len(thumbnails) = 7
                     /\ [i \in 1..7 |-> thumbnails[i].width]
                            = <<480, 640, 800, 1024, 1280, 1600, 2048>>
                     /\ { i \in 1..7 : thumbnails[i].preference = 1 } = { 5 }
                     /\ \A i \in (1..7) \ { 5 } : thumbnails[i].preference = -1
           /\ thumbnail_url = None => thumbnails = <<>>
           /\ pc = "done" => result[1].thumbnails = thumbnails

C9_Witness ==
    /\ pc = "done"
    /\ thumbnail_url # None
    /\ Len(result[1].thumbnails) = 7

\* The orders of requests a run may show: the initial page fetch, then at
\* most one each of auth POST, page re-fetch, manifest resolution and
\* metadata request, in this order.
RECURSIVE IsSubsequence(_, _)
IsSubsequence(a, b) ==
    IF a = <<>> THEN TRUE
    ELSE IF b = <<>> THEN FALSE
    ELSE IF a[1] = b[1] THEN IsSubsequence(Tail(a), Tail(b))
    ELSE IsSubsequence(a, Tail(b))

\* C10: the requests are the initial page fetch followed by a subsequence of
\* auth POST, page re-fetch, manifest resolution, metadata request; the page
\* is fetched at most twice; a re-fetch only after a gated first page, an auth
\* POST only after a gated page with a password given; and with no password
\* and an sm_auth cookie the page is re-fetched without an auth POST.
C10_RequestOrder ==
    /\ pc # "fetch" => (requests # <<>> /\ requests[1] = "page")
    /\ requests # <<>>
           => IsSubsequence(Tail(requests), <<"auth", "page", "manifest", "metadata">>)
    /\ Count("page") <= 2
    /\ Count("page") = 2 => gated = "gated"
    /\ Count("auth") >= 1 => (gated = "gated" /\ password # None /\ password # Some(""))
    /\ gated = "open" => (requests[1] = "page" /\ Count("page") = 1 /\ ~AsksPassword(webpage))
    /\ (gated = "gated" /\ (password = None \/ password = Some("")) /\ "sm_auth" \in cookies)
           => (Len(requests) >= 2 /\ SubSeq(requests, 1, 2) = <<"page", "page">>
                   /\ Count("auth") = 0)

\* After the re-fetch the gate is not tested again: a page that still asks
\* for the password is scanned like any other.
C10_Witness ==
    /\ pc = "done"
    /\ requests = <<"page", "page", "manifest", "metadata">>
    /\ AsksPassword(webpage)
    /\ password = None

====
